---- MODULE Spec2Model ----
(***************************************************************************)
(* State-machine model of the real-time distribution layer of             *)
(* stellar-insights' backend:                                              *)
(*   backend/src/websocket.rs            WsState, ws_handler,              *)
(*                                        handle_socket (recv_task,        *)
(*                                        send_task, teardown)             *)
(*   backend/src/services/realtime_broadcaster.rs   RealtimeBroadcaster    *)
(*                                                                         *)
(* Granularity: one action per run of code between two suspension points   *)
(* (.await) of a task.  DashMap operations are linearizable and the        *)
(* per-connection tasks are tokio tasks of their own, so every interleaving*)
(* of these actions is a schedule of the program.                          *)
(***************************************************************************)
EXTENDS Integers, Sequences, FiniteSets, TLC

\* ------------------------------------------------------------------ bounds
\* Number of upgrade requests that are accepted (connection ids allocated).
MaxConns == 2
\* Number of inbound text frames handled (messages_received).
MaxFrames == 2
\* Frames a connection may have pending, in a task's hands or written.
MaxTraffic == 2
\* Number of Subscribe and Unsubscribe frames handled.
MaxCalls == 3
\* Events a connection may have pending (queue + bus) when an event is
\* published, where the subscription filter is examined.
MaxPending == 1
\* Corridor updates a connection may have pending when a tick runs, where the
\* debounce is examined.
MaxQueued == 2
\* Calls of WsState::broadcast (messages_sent).
MaxBroadcasts == 1
\* Last instant of the wall clock, in seconds.
MaxTime == 90
\* Frames written to a connection where the heartbeat is examined.
MaxWire == 3

\* ------------------------------------------------------- program constants
\* tokio::sync::mpsc::channel::<WsMessage>(32)
QUEUE_CAPACITY == 32
\* broadcast::channel(100): tokio rounds the ring up to a power of two
BROADCAST_CAPACITY == 128
\* elapsed.num_seconds() >= 30
RATE_LIMIT_SECS == 30

ConnIds == 1..MaxConns

\* Option<T>: None, Some(v)
None == <<>>
Some(v) == <<v>>

\* --------------------------------------------------------------- variables
VARIABLES
    ws_auth_token,   \* std::env::var("WS_AUTH_TOKEN"): None or Some(token)
    http,            \* last upgrade request and ws_handler's response to it
    connections,     \* WsState.connections: its keys (id -> Sender of chan[id])
    subscriptions,   \* WsState.subscriptions: id -> Vec<String>
    metrics,         \* WsState.metrics (the atomic counters)
    bus,             \* WsState.tx: per receiver, the broadcasts not yet received
    lagged,          \* per receiver, whether the ring has overrun it
    chan,            \* per connection, the buffer of its private mpsc channel
    wire,            \* per connection, the frames written to the client
    phase,           \* handle_socket's position, per connection
    recv_task,       \* recv_task's status, per connection
    send_task,       \* send_task's status, per connection
    recv_out,        \* the frame recv_task is to write: None or Some(frame)
    send_out,        \* the frame send_task is to write: None or Some(frame)
    ping_interval,   \* send_task's interval: its ticks that are due
    broadcast_arm,   \* whether the select! still polls broadcast_rx.recv()
    writable,        \* whether the transport still accepts writes
    last_sent,       \* RealtimeBroadcaster.last_sent: corridor key -> time
    now,             \* chrono::Utc::now(), in seconds
    broadcaster_loop, \* the task RealtimeBroadcaster::start spawns
    warned           \* time of the loop's last "Realtime publish error" log

vars == <<ws_auth_token, http, connections, subscriptions, metrics, bus,
          lagged, chan, wire, phase, recv_task, send_task, recv_out, send_out,
          ping_interval, broadcast_arm, writable, last_sent, now,
          broadcaster_loop, warned>>

registry == <<connections, subscriptions>>
conn_tasks == <<phase, recv_task, send_task>>
in_flight == <<recv_out, send_out>>
select_arms == <<ping_interval, broadcast_arm>>
loop_task == <<broadcaster_loop, warned>>
broadcaster == <<last_sent, now, loop_task>>

\* ----------------------------------------------------------------- strings
\* str::starts_with
starts_with(s, p) == Len(s) >= Len(p) /\ SubSeq(s, 1, Len(p)) = p

\* str::trim_start_matches: strips the prefix REPEATEDLY, as long as it matches
RECURSIVE trim_start_matches(_, _)
trim_start_matches(s, p) ==
    IF Len(p) > 0 /\ starts_with(s, p)
    THEN trim_start_matches(SubSeq(s, Len(p) + 1, Len(s)), p)
    ELSE s

\* Vec::contains
contains(v, x) == \E i \in 1..Len(v) : v[i] = x

\* The retain with its test inverted: retain(|c| channels.contains(c))
RECURSIVE retain_contained(_, _)
retain_contained(entry, channels) ==
    IF entry = <<>> THEN <<>>
    ELSE IF contains(channels, Head(entry))
         THEN <<Head(entry)>> \o retain_contained(Tail(entry), channels)
         ELSE retain_contained(Tail(entry), channels)

\* Vec::retain(|c| !channels.contains(c))
RECURSIVE retain_not_contained(_, _)
retain_not_contained(entry, channels) ==
    IF entry = <<>> THEN <<>>
    ELSE IF ~contains(channels, Head(entry))
         THEN <<Head(entry)>> \o retain_not_contained(Tail(entry), channels)
         ELSE retain_not_contained(Tail(entry), channels)

\* -------------------------------------------------------------- WsMessage
Connected(id) == [type |-> "connected", connection_id |-> id]
Ping(ts) == [type |-> "ping", timestamp |-> ts]
\* The reply stamped with the server's clock instead of the client's value
Pong_server_time(ts) == [type |-> "pong", timestamp |-> now]
Pong(ts) == [type |-> "pong", timestamp |-> ts]
Subscribe(channels) == [type |-> "subscribe", channels |-> channels]
Unsubscribe(channels) == [type |-> "unsubscribe", channels |-> channels]
CorridorUpdate(key) == [type |-> "corridor_update", corridor_key |-> key]
AnchorUpdate == [type |-> "anchor_update", anchor_id |-> "", name |-> ""]
NewPayment == [type |-> "new_payment"]
SnapshotUpdate == [type |-> "snapshot_update"]
HealthAlert == [type |-> "health_alert"]

\* The variants of WsMessage (the values of its "type" tag).
WsMessageTypes ==
    {"snapshot_update", "corridor_update", "anchor_update", "ping", "pong",
     "connected", "error", "subscribe", "unsubscribe", "new_payment",
     "health_alert", "connection_status"}

\* axum::extract::ws::Message
Text(body) == [kind |-> "text", body |-> body]
WsPing(data) == [kind |-> "ping", data |-> data]
WsPong(data) == [kind |-> "pong", data |-> data]
Binary == [kind |-> "binary"]
Close == [kind |-> "close"]

\* Text payloads that are not the JSON of any WsMessage: not JSON at all, and
\* JSON whose "type" tag names no variant.
Malformed == [type |-> "<not json>"]
Unrecognized == [type |-> "bogus_type"]

\* serde_json::from_str::<WsMessage>: Some(message) or None on a parse failure
from_str(text) ==
    IF text.type \in WsMessageTypes THEN Some(text) ELSE None

\* serde_json::to_string followed by Message::Text
to_frame(msg) == Text(msg)

\* ------------------------------------------------------------ WsState API
\* DashMap::insert
insert(map, key, value) ==
    [k \in DOMAIN map \cup {key} |-> IF k = key THEN value ELSE map[k]]

\* WsState::subscribe made additive: the new channels join the old ones
subscribe_extend(subs, id, channels) ==
    insert(subs, id, IF id \in DOMAIN subs THEN subs[id] \o channels
                                           ELSE channels)

\* WsState::subscribe
subscribe(subs, id, channels) == insert(subs, id, channels)

\* The retain that drops only the first channel named in the request
unsubscribe_first_named(subs, id, channels) ==
    IF id \in DOMAIN subs /\ channels # <<>>
    THEN [subs EXCEPT ![id] = retain_not_contained(subs[id], <<Head(channels)>>)]
    ELSE subs

\* WsState::unsubscribe: get_mut(id), then retain
unsubscribe(subs, id, channels) ==
    IF id \in DOMAIN subs
    THEN [subs EXCEPT ![id] = retain_not_contained(subs[id], channels)]
    ELSE subs

\* DashMap::remove
remove(map, id) == [k \in DOMAIN map \ {id} |-> map[k]]

\* WsState::connection_count
connection_count == Cardinality(connections)

\* WsState::get_metrics (uptime_seconds left out)
get_metrics == metrics

\* ------------------------------------------------------------- ws_handler
\* validate_token with the comparison lost: every token passes
validate_token_any(token) == TRUE

\* validate_token
validate_token(token) ==
    IF ws_auth_token # None THEN token = ws_auth_token[1] ELSE TRUE

\* ws_handler's early return: "if let Some(token) = params.token"
unauthorized(token) == token # None /\ ~validate_token(token[1])

\* Uuid::new_v4(): an id no connection has had (it names the connection from
\* its upgrade request on)
new_v4 == CHOOSE id \in ConnIds :
              /\ phase[id] = "idle"
              /\ \A j \in ConnIds : phase[j] = "idle" => id <= j

\* ------------------------------------------------------ channels and writes
\* The receiving ends (rx, broadcast_rx) are created in handle_socket and
\* moved into send_task; they are dropped when send_task ends.
rx_alive(id) ==
    /\ phase[id] \in {"handshake", "open", "closed"}
    /\ send_task[id] # "finished"

\* broadcast::Sender::send, seen from one receiver: the ring keeps the last
\* BROADCAST_CAPACITY messages the receiver has not taken
ring_full(q) == Len(q) = BROADCAST_CAPACITY
ring_send(q, message) ==
    IF ring_full(q) THEN Append(Tail(q), message) ELSE Append(q, message)

\* The sender half of the socket is behind a tokio::sync::Mutex.
\* "sender.lock().await": the task gets the guard at once unless the other
\* task is in a write; then it is parked.
lock(other) == IF other = "sending" THEN "locking" ELSE "sending"

\* The guard is dropped: the Mutex passes to the task parked in lock().
unlock(other) == IF other = "locking" THEN "sending" ELSE other

\* mpsc::Sender::try_send succeeds iff the receiver lives and a slot is free
try_send_ok(q, id) == rx_alive(id) /\ Len(q[id]) < QUEUE_CAPACITY

\* SinkExt::send on the socket: the frame reaches the client, or Err
sink_send(w, id, frame) ==
    IF writable[id] THEN [w EXCEPT ![id] = Append(@, frame)] ELSE w

\* ------------------------------------------------------ subscription filter
\* publish_corridor_updates, the loop over subs
corridor_matched(subs, corridor_key) ==
    \E i \in 1..Len(subs) :
        /\ starts_with(subs[i], "corridor:")
        /\ trim_start_matches(subs[i], "corridor:") = corridor_key

\* The anchor test with the colon dropped from the prefix
anchor_matched_bare(subs) ==
    \E i \in 1..Len(subs) : starts_with(subs[i], "anchor")

\* broadcast_anchor_status, the loop over subs
anchor_matched(subs) ==
    \E i \in 1..Len(subs) : starts_with(subs[i], "anchor:")

\* The payment test as a prefix test
payment_matched_prefix(subs) ==
    \E i \in 1..Len(subs) : starts_with(subs[i], "payments")

\* broadcast_payment, the loop over subs
payment_matched(subs) ==
    \E i \in 1..Len(subs) : subs[i] = "payments"

\* The "matched" flag of the three fan-out loops, by the event published
matched(msg, subs) ==
    CASE msg.type = "corridor_update" -> corridor_matched(subs, msg.corridor_key)
      [] msg.type = "anchor_update" -> anchor_matched(subs)
      [] msg.type = "new_payment" -> payment_matched(subs)

\* The filter without "if !subs.is_empty()": an empty list matches nothing
skipped_when_empty(id, msg) ==
    /\ id \in DOMAIN subscriptions
    /\ ~matched(msg, subscriptions[id])

\* "if let Some(s) = subscriptions.get(&conn_id) { if !subs.is_empty() {
\*  ... if !matched { continue; } } }"
skipped(id, msg) ==
    /\ id \in DOMAIN subscriptions
    /\ subscriptions[id] # <<>>
    /\ ~matched(msg, subscriptions[id])

\* The loop with a queue that takes the event whatever it already holds
fan_out_unbounded(q, msg) ==
    [id \in ConnIds |->
        IF id \in connections /\ ~skipped(id, msg) /\ rx_alive(id)
        THEN Append(q[id], msg)
        ELSE q[id]]

\* "for entry in self.state.connections.iter()": filter, then try_send
fan_out(q, msg) ==
    [id \in ConnIds |->
        IF id \in connections /\ ~skipped(id, msg) /\ try_send_ok(q, id)
        THEN Append(q[id], msg)
        ELSE q[id]]

\* ------------------------------------------------------ RealtimeBroadcaster
\* The window one second short: 29 seconds since the last dispatch suffice
should_send_early(ledger, key) ==
    IF key \in DOMAIN ledger
    THEN now - ledger[key] >= RATE_LIMIT_SECS - 1
    ELSE TRUE

\* The window never reopening: a key is sent once and never again
should_send_once(ledger, key) == key \notin DOMAIN ledger

\* should_send: the match on last_sent.get(&key)
should_send(ledger, key) ==
    IF key \in DOMAIN ledger
    THEN now - ledger[key] >= RATE_LIMIT_SECS
    ELSE TRUE

\* last_sent.insert(key, Utc::now())
ledger_insert(ledger, key) ==
    [k \in DOMAIN ledger \cup {key} |-> IF k = key THEN now ELSE ledger[k]]

\* The loop with the ledger written for a suppressed record too
RECURSIVE publish_loop_reset(_, _, _)
publish_loop_reset(records, q, ledger) ==
    IF records = <<>> THEN [chan |-> q, last_sent |-> ledger]
    ELSE LET key == Head(records)
         IN  IF ~should_send(ledger, key)
             THEN publish_loop_reset(Tail(records), q,
                                     ledger_insert(ledger, key))
             ELSE publish_loop_reset(Tail(records),
                                     fan_out(q, CorridorUpdate(key)),
                                     ledger_insert(ledger, key))

\* "for m in metrics.into_iter()": the records in order, each seeing the
\* ledger and the queues as the records before it left them
RECURSIVE publish_loop(_, _, _)
publish_loop(records, q, ledger) ==
    IF records = <<>> THEN [chan |-> q, last_sent |-> ledger]
    ELSE LET key == Head(records)
         IN  IF ~should_send(ledger, key)
             THEN publish_loop(Tail(records), q, ledger)
             ELSE publish_loop(Tail(records),
                               fan_out(q, CorridorUpdate(key)),
                               ledger_insert(ledger, key))

\* -------------------------------------------------------------------- inputs
\* The token query parameter of an upgrade request.
Tokens == {None, Some("secret"), Some("wrong")}

\* Corridor keys of the storage's metric records.
CorridorKeys == {"USDC-XLM", "EURC-XLM"}

\* ------------------------------------------------------------------- Init
\* WsState::new, RealtimeBroadcaster::new; the environment's WS_AUTH_TOKEN
Init ==
    /\ ws_auth_token \in {None, Some("secret")}
    /\ http = [token |-> None, status |-> 0]
    /\ connections = {}
    /\ subscriptions = [id \in {} |-> <<>>]
    /\ metrics = [total_connections |-> 0, active_connections |-> 0,
                  messages_sent |-> 0, messages_received |-> 0,
                  connection_errors |-> 0]
    /\ bus = [id \in ConnIds |-> <<>>]
    /\ lagged = [id \in ConnIds |-> FALSE]
    /\ chan = [id \in ConnIds |-> <<>>]
    /\ wire = [id \in ConnIds |-> <<>>]
    /\ phase = [id \in ConnIds |-> "idle"]
    /\ recv_task = [id \in ConnIds |-> "unspawned"]
    /\ send_task = [id \in ConnIds |-> "unspawned"]
    /\ recv_out = [id \in ConnIds |-> None]
    /\ send_out = [id \in ConnIds |-> None]
    /\ ping_interval = [id \in ConnIds |-> 0]
    /\ broadcast_arm = [id \in ConnIds |-> TRUE]
    /\ writable = [id \in ConnIds |-> TRUE]
    /\ last_sent = [k \in {} |-> 0]
    /\ now = 0
    /\ broadcaster_loop = "unspawned"
    /\ warned = None

\* ---------------------------------------------------------------- actions
\* ws_handler: the token check, then 401 or "ws.on_upgrade(..)", the 101
\* response.  handle_socket runs later, in the task on_upgrade spawns.
ws_handler(token) ==
    /\ UNCHANGED <<ws_auth_token, registry, metrics, bus, lagged, chan, wire,
                   recv_task, send_task, in_flight, select_arms, writable,
                   broadcaster>>
    /\ IF unauthorized(token)
       THEN /\ http' = [token |-> token, status |-> 401]
            /\ UNCHANGED phase
       ELSE /\ \E id \in ConnIds : phase[id] = "idle"
            /\ http' = [token |-> token, status |-> 101]
            /\ phase' = [phase EXCEPT ![new_v4] = "upgrading"]

\* The protocol upgrade does not complete (the client went away): the
\* callback given to on_upgrade, handle_socket, never runs.
on_upgrade_failed(id) ==
    /\ phase[id] = "upgrading"
    /\ phase' = [phase EXCEPT ![id] = "aborted"]
    /\ UNCHANGED <<ws_auth_token, http, registry, metrics, bus, lagged, chan,
                   wire, recv_task, send_task, in_flight, select_arms,
                   writable, broadcaster>>

\* handle_socket up to its first .await: the counters, the two inserts,
\* tx.subscribe()
handle_socket(id) ==
    /\ phase[id] = "upgrading"
    /\ metrics' = [metrics EXCEPT !.total_connections = @ + 1,
                                  !.active_connections = @ + 1]
    /\ connections' = connections \cup {id}
    /\ subscriptions' = insert(subscriptions, id, <<>>)
    /\ bus' = [bus EXCEPT ![id] = <<>>]
    /\ lagged' = [lagged EXCEPT ![id] = FALSE]
    /\ phase' = [phase EXCEPT ![id] = "handshake"]
    /\ UNCHANGED <<ws_auth_token, http, chan, wire, recv_task, send_task,
                   in_flight, select_arms, writable, broadcaster>>

\* handle_socket with the tasks spawned and the Connected frame left out
handle_socket_spawn_first(id) ==
    /\ phase[id] = "handshake"
    /\ phase' = [phase EXCEPT ![id] = "open"]
    /\ recv_task' = [recv_task EXCEPT ![id] = "running"]
    /\ send_task' = [send_task EXCEPT ![id] = "running"]
    /\ ping_interval' = [ping_interval EXCEPT ![id] = 1]
    /\ broadcast_arm' = [broadcast_arm EXCEPT ![id] = TRUE]
    /\ UNCHANGED <<ws_auth_token, http, registry, metrics, bus, lagged, chan,
                   wire, in_flight, writable, broadcaster>>

\* handle_socket: the write of the Connected frame completes (its result is
\* ignored), then the two tokio::spawn calls.  send_task creates its
\* interval, whose first tick is due at once.
handle_socket_ack(id) ==
    /\ phase[id] = "handshake"
    /\ wire' = sink_send(wire, id, to_frame(Connected(id)))
    /\ phase' = [phase EXCEPT ![id] = "open"]
    /\ recv_task' = [recv_task EXCEPT ![id] = "running"]
    /\ send_task' = [send_task EXCEPT ![id] = "running"]
    /\ ping_interval' = [ping_interval EXCEPT ![id] = 1]
    /\ broadcast_arm' = [broadcast_arm EXCEPT ![id] = TRUE]
    /\ UNCHANGED <<ws_auth_token, http, registry, metrics, bus, lagged, chan,
                   in_flight, writable, broadcaster>>

\* recv_task has a frame to write: "recv_sender.lock().await"
recv_task_reply(id, frame) ==
    /\ recv_out' = [recv_out EXCEPT ![id] = Some(frame)]
    /\ recv_task' = [recv_task EXCEPT ![id] = lock(send_task[id])]

\* recv_task: the match on a parsed text frame
recv_text(id, ws_msg) ==
    CASE ws_msg.type = "ping" ->
            /\ recv_task_reply(id, to_frame(Pong(ws_msg.timestamp)))
            /\ UNCHANGED subscriptions
      [] ws_msg.type = "subscribe" ->
            /\ subscriptions' = subscribe(subscriptions, id, ws_msg.channels)
            /\ UNCHANGED <<recv_out, recv_task>>
      [] ws_msg.type = "unsubscribe" ->
            /\ subscriptions' = unsubscribe(subscriptions, id, ws_msg.channels)
            /\ UNCHANGED <<recv_out, recv_task>>
      [] OTHER -> UNCHANGED <<subscriptions, recv_out, recv_task>>

\* recv_task answering a text frame it cannot parse with an Error envelope
recv_task_frame_error_reply(id, msg) ==
    /\ recv_task[id] = "running"
    /\ UNCHANGED <<ws_auth_token, http, connections, bus, lagged, chan, wire,
                   phase, send_task, send_out, select_arms, writable,
                   broadcaster>>
    /\ CASE msg.kind = "text" ->
               /\ metrics' = [metrics EXCEPT !.messages_received = @ + 1]
               /\ IF from_str(msg.body) # None
                  THEN recv_text(id, from_str(msg.body)[1])
                  ELSE /\ recv_task_reply(id, to_frame([type |-> "error"]))
                       /\ UNCHANGED subscriptions
         [] msg.kind = "ping" ->
               /\ recv_task_reply(id, WsPong(msg.data))
               /\ UNCHANGED <<subscriptions, metrics>>
         [] msg.kind = "close" ->
               /\ recv_task' = [recv_task EXCEPT ![id] = "finished"]
               /\ UNCHANGED <<subscriptions, metrics, recv_out>>
         [] OTHER ->
               UNCHANGED <<subscriptions, metrics, recv_out, recv_task>>

\* recv_task: one turn of "while let Some(Ok(msg)) = receiver.next().await",
\* up to the next .await: receiver.next() again, or the lock of the sender
\* when the frame asks for a reply
recv_task_frame(id, msg) ==
    /\ recv_task[id] = "running"
    /\ UNCHANGED <<ws_auth_token, http, connections, bus, lagged, chan, wire,
                   phase, send_task, send_out, select_arms, writable,
                   broadcaster>>
    /\ CASE msg.kind = "text" ->
               /\ metrics' = [metrics EXCEPT !.messages_received = @ + 1]
               /\ IF from_str(msg.body) # None
                  THEN recv_text(id, from_str(msg.body)[1])
                  ELSE UNCHANGED <<subscriptions, recv_out, recv_task>>
         [] msg.kind = "ping" ->
               /\ recv_task_reply(id, WsPong(msg.data))
               /\ UNCHANGED <<subscriptions, metrics>>
         [] msg.kind = "close" ->
               /\ recv_task' = [recv_task EXCEPT ![id] = "finished"]
               /\ UNCHANGED <<subscriptions, metrics, recv_out>>
         [] OTHER ->
               UNCHANGED <<subscriptions, metrics, recv_out, recv_task>>

\* recv_task: "let _ = sender_guard.send(..).await" completes, with Ok or
\* Err; the guard is dropped and the loop goes back to receiver.next()
recv_task_send(id) ==
    /\ recv_task[id] = "sending"
    /\ wire' = sink_send(wire, id, recv_out[id][1])
    /\ recv_out' = [recv_out EXCEPT ![id] = None]
    /\ recv_task' = [recv_task EXCEPT ![id] = "running"]
    /\ send_task' = [send_task EXCEPT ![id] = unlock(send_task[id])]
    /\ UNCHANGED <<ws_auth_token, http, registry, metrics, bus, lagged, chan,
                   phase, send_out, select_arms, writable, broadcaster>>

\* recv_task: receiver.next() yields None or Some(Err(_)), the loop ends
recv_task_end(id) ==
    /\ recv_task[id] = "running"
    /\ recv_task' = [recv_task EXCEPT ![id] = "finished"]
    /\ UNCHANGED <<ws_auth_token, http, registry, metrics, bus, lagged, chan,
                   wire, phase, send_task, in_flight, select_arms, writable,
                   broadcaster>>

\* tokio's timer: another period of ping_interval has passed
ping_interval_elapsed(id) ==
    /\ send_task[id] \in {"running", "locking", "sending"}
    /\ ping_interval' = [ping_interval EXCEPT ![id] = @ + 1]
    /\ UNCHANGED <<ws_auth_token, http, registry, metrics, bus, lagged, chan,
                   wire, conn_tasks, in_flight, broadcast_arm, writable,
                   broadcaster>>

\* send_task: an arm of the select! has yielded a message; the frame is built
\* and the task goes to "send_sender.lock().await".  The next turn of the
\* loop polls every arm again.
send_task_take(id, frame) ==
    /\ send_out' = [send_out EXCEPT ![id] = Some(frame)]
    /\ send_task' = [send_task EXCEPT ![id] = lock(recv_task[id])]
    /\ broadcast_arm' = [broadcast_arm EXCEPT ![id] = TRUE]

\* send_task: "_ = ping_interval.tick()"; the timestamp is read here
send_task_heartbeat(id) ==
    /\ send_task[id] = "running"
    /\ ping_interval[id] > 0
    /\ ping_interval' = [ping_interval EXCEPT ![id] = @ - 1]
    /\ send_task_take(id, to_frame(Ping(now)))
    /\ UNCHANGED <<ws_auth_token, http, registry, metrics, bus, lagged, chan,
                   wire, phase, recv_task, recv_out, writable, broadcaster>>

\* send_task: "Ok(msg) = broadcast_rx.recv()".  After an overrun of the ring
\* recv() yields Err(Lagged), which the pattern does not match: the arm is
\* disabled until another arm has ended this select!.
send_task_broadcast(id) ==
    /\ send_task[id] = "running"
    /\ broadcast_arm[id]
    /\ IF lagged[id]
       THEN /\ lagged' = [lagged EXCEPT ![id] = FALSE]
            /\ broadcast_arm' = [broadcast_arm EXCEPT ![id] = FALSE]
            /\ UNCHANGED <<bus, send_task, send_out>>
       ELSE /\ bus[id] # <<>>
            /\ bus' = [bus EXCEPT ![id] = Tail(@)]
            /\ send_task_take(id, to_frame(Head(bus[id])))
            /\ UNCHANGED lagged
    /\ UNCHANGED <<ws_auth_token, http, registry, metrics, chan, wire, phase,
                   recv_task, recv_out, ping_interval, writable, broadcaster>>

\* send_task taking a copy of the head of the queue and leaving it queued
send_task_queue_peek(id) ==
    /\ send_task[id] = "running"
    /\ chan[id] # <<>>
    /\ send_task_take(id, to_frame(Head(chan[id])))
    /\ UNCHANGED <<ws_auth_token, http, registry, metrics, bus, lagged, chan,
                   wire, phase, recv_task, recv_out, ping_interval, writable,
                   broadcaster>>

\* send_task: "Some(msg) = rx.recv()": the event leaves the queue
send_task_queue(id) ==
    /\ send_task[id] = "running"
    /\ chan[id] # <<>>
    /\ chan' = [chan EXCEPT ![id] = Tail(@)]
    /\ send_task_take(id, to_frame(Head(chan[id])))
    /\ UNCHANGED <<ws_auth_token, http, registry, metrics, bus, lagged, wire,
                   phase, recv_task, recv_out, ping_interval, writable,
                   broadcaster>>

\* send_task: "sender_guard.send(..).await" completes.  On Ok the loop goes
\* on; on Err "break", which ends the task and drops rx and broadcast_rx.
\* Either way the guard is dropped.
send_task_send(id) ==
    /\ send_task[id] = "sending"
    /\ IF writable[id]
       THEN /\ wire' = [wire EXCEPT ![id] = Append(@, send_out[id][1])]
            /\ send_task' = [send_task EXCEPT ![id] = "running"]
            /\ UNCHANGED <<bus, lagged, chan>>
       ELSE /\ send_task' = [send_task EXCEPT ![id] = "finished"]
            /\ bus' = [bus EXCEPT ![id] = <<>>]
            /\ lagged' = [lagged EXCEPT ![id] = FALSE]
            /\ chan' = [chan EXCEPT ![id] = <<>>]
            /\ UNCHANGED wire
    /\ send_out' = [send_out EXCEPT ![id] = None]
    /\ recv_task' = [recv_task EXCEPT ![id] = unlock(recv_task[id])]
    /\ UNCHANGED <<ws_auth_token, http, registry, metrics, phase, recv_out,
                   select_arms, writable, broadcaster>>

\* The clean-up after a join of both tasks instead of the select!
handle_socket_teardown_join(id) ==
    /\ phase[id] = "open"
    /\ recv_task[id] = "finished" /\ send_task[id] = "finished"
    /\ connections' = connections \ {id}
    /\ subscriptions' = remove(subscriptions, id)
    /\ metrics' = [metrics EXCEPT !.active_connections = @ - 1]
    /\ phase' = [phase EXCEPT ![id] = "closed"]
    /\ UNCHANGED <<ws_auth_token, http, bus, lagged, chan, wire, recv_task,
                   send_task, in_flight, select_arms, writable, broadcaster>>

\* The clean-up without the fetch_sub on active_connections.
handle_socket_teardown_no_fetch_sub(id) ==
    /\ phase[id] = "open"
    /\ recv_task[id] = "finished" \/ send_task[id] = "finished"
    /\ connections' = connections \ {id}
    /\ subscriptions' = remove(subscriptions, id)
    /\ phase' = [phase EXCEPT ![id] = "closed"]
    /\ UNCHANGED <<ws_auth_token, http, metrics, bus, lagged, chan, wire,
                   recv_task, send_task, in_flight, select_arms, writable,
                   broadcaster>>

\* handle_socket: the select! over the two JoinHandles, then the clean-up.
\* The JoinHandle of the other task is dropped, which detaches it: the task
\* keeps running.
handle_socket_teardown(id) ==
    /\ phase[id] = "open"
    /\ recv_task[id] = "finished" \/ send_task[id] = "finished"
    /\ connections' = connections \ {id}
    /\ subscriptions' = remove(subscriptions, id)
    /\ metrics' = [metrics EXCEPT !.active_connections = @ - 1]
    /\ phase' = [phase EXCEPT ![id] = "closed"]
    /\ UNCHANGED <<ws_auth_token, http, bus, lagged, chan, wire, recv_task,
                   send_task, in_flight, select_arms, writable, broadcaster>>

\* The environment: the client goes away, every write that has not
\* completed and every later one fails.
transport_down(id) ==
    /\ phase[id] \in {"handshake", "open", "closed"}
    /\ writable[id]
    /\ writable' = [writable EXCEPT ![id] = FALSE]
    /\ UNCHANGED <<ws_auth_token, http, registry, metrics, bus, lagged, chan,
                   wire, conn_tasks, in_flight, select_arms, broadcaster>>

\* WsState::broadcast: the counter, then tx.send, whose result is only logged
broadcast(message) ==
    /\ metrics' = [metrics EXCEPT !.messages_sent = @ + 1]
    /\ bus' = [id \in ConnIds |->
                  IF rx_alive(id) THEN ring_send(bus[id], message) ELSE bus[id]]
    /\ lagged' = [id \in ConnIds |->
                     lagged[id] \/ (rx_alive(id) /\ ring_full(bus[id]))]
    /\ UNCHANGED <<ws_auth_token, http, registry, chan, wire, conn_tasks,
                   in_flight, select_arms, writable, broadcaster>>

\* RealtimeBroadcaster::publish_corridor_updates; result is what
\* get_corridor_metrics_for_date returned: Err, or Ok(records).  What becomes
\* of the caller is the caller's part (start_loop, or a direct call).
publish_corridor_updates(result) ==
    /\ IF result.ok
       THEN LET out == publish_loop(result.records, chan, last_sent)
            IN  chan' = out.chan /\ last_sent' = out.last_sent
       ELSE UNCHANGED <<chan, last_sent>>
    /\ UNCHANGED <<ws_auth_token, http, registry, metrics, bus, lagged, wire,
                   conn_tasks, in_flight, select_arms, writable, now>>

\* broadcast_anchor_status put behind the ledger, under a key of its own
broadcast_anchor_status_debounced ==
    /\ IF should_send(last_sent, "anchor")
       THEN /\ chan' = fan_out(chan, AnchorUpdate)
            /\ last_sent' = ledger_insert(last_sent, "anchor")
       ELSE UNCHANGED <<chan, last_sent>>
    /\ UNCHANGED <<ws_auth_token, http, registry, metrics, bus, lagged, wire,
                   conn_tasks, in_flight, select_arms, writable, now,
                   loop_task>>

\* RealtimeBroadcaster::broadcast_anchor_status
broadcast_anchor_status ==
    /\ chan' = fan_out(chan, AnchorUpdate)
    /\ UNCHANGED <<ws_auth_token, http, registry, metrics, bus, lagged, wire,
                   conn_tasks, in_flight, select_arms, writable, broadcaster>>

\* broadcast_payment counting every failed try_send in connection_errors
broadcast_payment_counting_errors ==
    /\ chan' = fan_out(chan, NewPayment)
    /\ metrics' = [metrics EXCEPT !.connection_errors =
           @ + Cardinality({id \in connections :
                               ~skipped(id, NewPayment) /\ ~try_send_ok(chan, id)})]
    /\ UNCHANGED <<ws_auth_token, http, registry, bus, lagged, wire,
                   conn_tasks, in_flight, select_arms, writable, broadcaster>>

\* RealtimeBroadcaster::broadcast_payment
broadcast_payment ==
    /\ chan' = fan_out(chan, NewPayment)
    /\ UNCHANGED <<ws_auth_token, http, registry, metrics, bus, lagged, wire,
                   conn_tasks, in_flight, select_arms, writable, broadcaster>>

\* The wall clock moves on by d seconds.
clock_advance(d) ==
    /\ now' = now + d
    /\ UNCHANGED <<ws_auth_token, http, registry, metrics, bus, lagged, chan,
                   wire, conn_tasks, in_flight, select_arms, writable,
                   last_sent, loop_task>>

\* RealtimeBroadcaster::start: tokio::spawn of the background loop
start ==
    /\ broadcaster_loop = "unspawned"
    /\ broadcaster_loop' = "running"
    /\ UNCHANGED <<ws_auth_token, http, registry, metrics, bus, lagged, chan,
                   wire, conn_tasks, in_flight, select_arms, writable,
                   last_sent, now, warned>>

\* The loop with the error propagated: a failed read ends the task
on_publish_result_fatal(result) ==
    IF result.ok THEN "running" ELSE "finished"

\* "if let Err(e) = this.publish_corridor_updates().await { warn!(..) }":
\* whatever the result, the loop goes on to its next turn
on_publish_result(result) == "running"

\* One turn of the loop: interval.tick().await, publish_corridor_updates,
\* the branch on its result
start_loop(result) ==
    /\ broadcaster_loop = "running"
    /\ publish_corridor_updates(result)
    /\ broadcaster_loop' = on_publish_result(result)
    /\ warned' = IF result.ok THEN warned ELSE Some(now)

\* ---------------------------------------------------------- specification
\* Frames a task of the connection holds, taken and not yet written.
Held(id) == (IF recv_out[id] # None THEN 1 ELSE 0)
            + (IF send_out[id] # None THEN 1 ELSE 0)

\* Frames pending for or written to a connection.
Traffic(id) == Len(wire[id]) + Len(chan[id]) + Len(bus[id]) + Held(id)
TrafficOK == \A id \in ConnIds : Traffic(id) < MaxTraffic

\* Whether the bounds leave room for the frame.
FrameOK(id, msg, max) ==
    /\ msg.kind = "text" => metrics.messages_received < max
    /\ (msg.kind = "ping" \/ (msg.kind = "text" /\ msg.body.type = "ping"))
           => Traffic(id) < MaxTraffic

\* What the storage read of a corridor tick returns.
Ok(records) == [ok |-> TRUE, records |-> records]
Err == [ok |-> FALSE, records |-> <<>>]

\* Frames a client sends.
InboundFrames ==
    {Text(Ping(42)), Text(Subscribe(<<"payments">>)),
     Text(Unsubscribe(<<"payments">>)), Text(Malformed), Text(HealthAlert),
     WsPing("p"), Binary, Close}

\* Frames a client sends in the course of a connection's life.
LifeFrames == {Text(Ping(42)), Text(Subscribe(<<"payments">>)), Close}

\* The connections' life: upgrade, handshake, the two tasks with the three
\* arms of send_task's select!, teardown, for every connection alike, with
\* the registry's broadcast and the broadcaster's anchor fan-out running
\* beside them.
Next ==
    \/ ws_handler(None)
    \/ \E id \in ConnIds : on_upgrade_failed(id)
    \/ \E id \in ConnIds : handle_socket(id)
    \/ \E id \in ConnIds : handle_socket_ack(id)
    \/ \E id \in ConnIds, msg \in LifeFrames :
           FrameOK(id, msg, MaxFrames) /\ recv_task_frame(id, msg)
    \/ \E id \in ConnIds : recv_task_send(id)
    \/ \E id \in ConnIds : recv_task_end(id)
    \/ \E id \in ConnIds : send_task_heartbeat(id)
    \/ \E id \in ConnIds : send_task_broadcast(id)
    \/ \E id \in ConnIds : send_task_queue(id)
    \/ \E id \in ConnIds : send_task_send(id)
    \/ \E id \in ConnIds : handle_socket_teardown(id)
    \/ \E id \in ConnIds : transport_down(id)
    \/ metrics.messages_sent < MaxBroadcasts /\ TrafficOK /\ broadcast(SnapshotUpdate)
    \/ TrafficOK /\ broadcast_anchor_status

Spec == Init /\ [][Next]_vars

\* ------------------------------------------------- the upgrade endpoint alone
\* Upgrade requests with every kind of token, upgrades that complete and
\* upgrades that do not, and connections that come and go without traffic
\* but the first heartbeat.
NextAuth ==
    \/ \E token \in Tokens : ws_handler(token)
    \/ \E id \in ConnIds : on_upgrade_failed(id)
    \/ \E id \in ConnIds : handle_socket(id)
    \/ \E id \in ConnIds : handle_socket_ack(id)
    \/ \E id \in ConnIds : send_task_heartbeat(id)
    \/ \E id \in ConnIds : send_task_send(id)
    \/ \E id \in ConnIds : recv_task_frame(id, Close)
    \/ \E id \in ConnIds : recv_task_end(id)
    \/ \E id \in ConnIds : handle_socket_teardown(id)

SpecAuth == Init /\ [][NextAuth]_vars

\* ------------------------------------------------- subscribe and unsubscribe
\* Vec<String> values a client sends in Subscribe and Unsubscribe: up to two
\* channel names, repeated names included.
RegistryChannels == {"corridor:USDC-XLM", "payments"}
RegistryLists ==
    {<<>>} \cup {<<a>> : a \in RegistryChannels}
           \cup {<<a, b>> : a \in RegistryChannels, b \in RegistryChannels}
RegistryFrames ==
    {Text(Subscribe(l)) : l \in RegistryLists}
    \cup {Text(Unsubscribe(l)) : l \in RegistryLists}

\* Clients that subscribe and unsubscribe, on connections whose outbound half
\* may fail and which are then torn down.
NextRegistry ==
    \/ ws_handler(None)
    \/ \E id \in ConnIds : handle_socket(id)
    \/ \E id \in ConnIds : handle_socket_ack(id)
    \/ \E id \in ConnIds, msg \in RegistryFrames :
           FrameOK(id, msg, MaxCalls) /\ recv_task_frame(id, msg)
    \/ \E id \in ConnIds : transport_down(id)
    \/ \E id \in ConnIds : send_task_heartbeat(id)
    \/ \E id \in ConnIds : send_task_send(id)
    \/ \E id \in ConnIds : handle_socket_teardown(id)

SpecRegistry == Init /\ [][NextRegistry]_vars

\* ------------------------------------------------------ subscription filter
\* Subscription lists of the filter's cases: exact corridor names, a doubled
\* prefix, a bare key, the other namespaces, and mixtures. A connection
\* subscribes at most once; one that never does keeps its empty list.
FilterLists ==
    {<<"corridor:USDC-XLM">>, <<"corridor:EURC-XLM">>,
     <<"corridor:corridor:USDC-XLM">>, <<"USDC-XLM">>, <<"corridor:">>,
     <<"anchor:a1">>, <<"payments">>, <<"payments", "corridor:USDC-XLM">>,
     <<"anchor:">>, <<"anchors">>}

FilterResults ==
    {Err} \cup {Ok(r) : r \in {<<>>, <<"USDC-XLM">>, <<"EURC-XLM">>,
                               <<"USDC-XLM", "EURC-XLM">>}}

\* Whether every connection has fewer than max events queued, on the bus or
\* taken by its send_task.
PendingOK(max) ==
    \A id \in ConnIds :
        Len(chan[id]) + Len(bus[id])
            + (IF send_out[id] # None /\ send_out[id][1].body.type # "ping"
               THEN 1 ELSE 0) < max

\* The first client subscribes, any other keeps its empty list; every
\* publish of the broadcaster and of the registry; the clients read nothing,
\* so that a send_task stays in its first write until the transport fails.
NextFilter ==
    \/ ws_handler(None)
    \/ \E id \in ConnIds : handle_socket(id)
    \/ \E id \in {1}, l \in FilterLists :
           /\ id \in DOMAIN subscriptions
           /\ subscriptions[id] = <<>>
           /\ recv_task_frame(id, Text(Subscribe(l)))
    \/ \E id \in ConnIds : handle_socket_ack(id)
    \/ \E result \in FilterResults :
           /\ PendingOK(MaxPending)
           /\ publish_corridor_updates(result)
           /\ UNCHANGED loop_task
    \/ PendingOK(MaxPending) /\ broadcast_anchor_status
    \/ PendingOK(MaxPending) /\ broadcast_payment
    \/ metrics.messages_sent < MaxBroadcasts /\ PendingOK(MaxPending) /\ broadcast(SnapshotUpdate)
    \/ \E id \in ConnIds : transport_down(id)
    \/ \E id \in ConnIds : send_task_heartbeat(id)
    \/ \E id \in ConnIds : send_task_broadcast(id)
    \/ \E id \in ConnIds : send_task_queue(id)
    \/ \E id \in ConnIds : ~writable[id] /\ send_task_send(id)
    \/ \E id \in ConnIds : handle_socket_teardown(id)

SpecFilter == Init /\ [][NextFilter]_vars

\* ----------------------------------------------------------------- debounce
\* Steps of the wall clock between two corridor ticks.
ClockSteps == {29, 30}

\* Corridor ticks at varying distances, with connections that take
\* everything and whose clients have not yet taken the Connected frame.
NextDebounce ==
    \/ ws_handler(None)
    \/ \E id \in ConnIds : handle_socket(id)
    \/ \E key \in CorridorKeys :
           /\ PendingOK(MaxQueued)
           /\ publish_corridor_updates(Ok(<<key>>))
           /\ UNCHANGED loop_task
    \/ /\ PendingOK(MaxQueued)
       /\ publish_corridor_updates(Ok(<<"USDC-XLM", "EURC-XLM">>))
       /\ UNCHANGED loop_task
    \/ publish_corridor_updates(Err) /\ UNCHANGED loop_task
    \/ \E d \in ClockSteps : now + d <= MaxTime /\ clock_advance(d)

SpecDebounce == Init /\ [][NextDebounce]_vars

\* ------------------------------------------------------------- backpressure
\* Anchor publishes without end, to connections whose clients read slowly.
NextBackpressure ==
    \/ ws_handler(None)
    \/ \E id \in ConnIds : handle_socket(id)
    \/ \E id \in ConnIds : handle_socket_ack(id)
    \/ \E id \in ConnIds : send_task_heartbeat(id)
    \/ \E id \in ConnIds : send_task_queue(id)
    \/ \E id \in ConnIds : Len(wire[id]) < MaxWire /\ send_task_send(id)
    \/ broadcast_anchor_status

SpecBackpressure == Init /\ [][NextBackpressure]_vars

\* ------------------------------------------------------------------ teardown
\* Connections whose halves end in every way: a Close frame, the end of the
\* stream or a read error, a write that fails.
NextTeardown ==
    \/ ws_handler(None)
    \/ \E id \in ConnIds : handle_socket(id)
    \/ \E id \in ConnIds : handle_socket_ack(id)
    \/ \E id \in ConnIds :
           /\ id \in DOMAIN subscriptions
           /\ subscriptions[id] = <<>>
           /\ recv_task_frame(id, Text(Subscribe(<<"payments">>)))
    \/ \E id \in ConnIds : recv_task_frame(id, Close)
    \/ \E id \in ConnIds : recv_task_end(id)
    \/ \E id \in ConnIds : transport_down(id)
    \/ \E id \in ConnIds : send_task_heartbeat(id)
    \/ \E id \in ConnIds : send_task_send(id)
    \/ \E id \in ConnIds : handle_socket_teardown(id)

\* handle_socket is a task of the runtime: once one of the JoinHandles it
\* selects over is ready, it is scheduled and runs its clean-up.
SpecTeardownFair ==
    /\ Init /\ [][NextTeardown]_vars
    /\ \A id \in ConnIds : WF_vars(handle_socket_teardown(id))

\* ---------------------------------------------------------- direct publishes
\* Subscription lists of the direct publishes' cases: the anchor namespace
\* with and without an id, the payments literal, their near misses, the
\* corridor namespace, and mixtures.
DirectLists ==
    {<<"anchor:a1">>, <<"anchor:">>, <<"anchors">>, <<"x-anchor:a1">>,
     <<"payments">>, <<"payments:all">>, <<"payment">>,
     <<"corridor:USDC-XLM">>, <<"corridor:USDC-XLM", "payments">>,
     <<"payments", "anchor:a2">>}

\* Anchor and payment publishes in any number and order, with no time between
\* them, beside a corridor tick that fills the ledger; every connection
\* subscribes at most once and its client reads nothing.
NextDirect ==
    \/ ws_handler(None)
    \/ \E id \in ConnIds : handle_socket(id)
    \/ \E id \in ConnIds : handle_socket_ack(id)
    \/ \E id \in ConnIds, l \in DirectLists :
           /\ id \in DOMAIN subscriptions
           /\ subscriptions[id] = <<>>
           /\ recv_task_frame(id, Text(Subscribe(l)))
    \/ \E id \in ConnIds : send_task_heartbeat(id)
    \/ \E id \in ConnIds : send_task_queue(id)
    \/ PendingOK(MaxQueued) /\ broadcast_anchor_status
    \/ PendingOK(MaxQueued) /\ broadcast_payment
    \/ /\ PendingOK(MaxQueued)
       /\ publish_corridor_updates(Ok(<<"USDC-XLM">>))
       /\ UNCHANGED loop_task

SpecDirect == Init /\ [][NextDirect]_vars

\* ------------------------------------------------------- the background loop
\* The loop's turns with every kind of storage result, at varying distances,
\* with connections that take everything and whose clients have not yet
\* taken the Connected frame.
NextTick ==
    \/ ws_handler(None)
    \/ \E id \in ConnIds : handle_socket(id)
    \/ start
    \/ \E result \in FilterResults : start_loop(result)
    \/ \E d \in ClockSteps : now + d <= MaxTime /\ clock_advance(d)

SpecTick == Init /\ [][NextTick]_vars

\* The interval keeps firing and time keeps passing: a turn that would
\* dispatch the key happens, and the clock moves as long as it can.
SpecTickFair ==
    /\ Init /\ [][NextTick]_vars
    /\ WF_vars(\E result \in FilterResults :
                  result.ok /\ contains(result.records, "USDC-XLM")
                            /\ start_loop(result))
    /\ WF_vars(\E d \in ClockSteps : now + d <= MaxTime /\ clock_advance(d))

\* ---------------------------------------------------------------- heartbeat
\* Timestamps a client puts in its Ping.
PingStamps == {0, 42}

\* Clients that ping (in text frames and in transport frames) and subscribe,
\* the server's own heartbeat, and transports that fail.
NextHeartbeat ==
    \/ ws_handler(None)
    \/ \E id \in ConnIds : handle_socket(id)
    \/ \E id \in ConnIds : handle_socket_ack(id)
    \/ \E id \in ConnIds, ts \in PingStamps :
           /\ metrics.messages_received < MaxCalls
           /\ Len(wire[id]) + Held(id) < MaxWire
           /\ recv_task_frame(id, Text(Ping(ts)))
    \/ \E id \in ConnIds :
           /\ id \in DOMAIN subscriptions
           /\ subscriptions[id] = <<>>
           /\ metrics.messages_received < MaxCalls
           /\ recv_task_frame(id, Text(Subscribe(<<"payments">>)))
    \/ \E id \in ConnIds :
           Len(wire[id]) + Held(id) < MaxWire /\ recv_task_frame(id, WsPing("p"))
    \/ \E id \in ConnIds : recv_task_send(id)
    \/ \E id \in ConnIds : send_task_heartbeat(id)
    \/ \E id \in ConnIds : send_task_send(id)
    \/ \E id \in ConnIds :
           /\ ping_interval[id] = 0
           /\ Len(wire[id]) + Held(id) < MaxWire
           /\ ping_interval_elapsed(id)
    \/ \E id \in ConnIds : transport_down(id)
    \/ \E id \in ConnIds : handle_socket_teardown(id)

SpecHeartbeat == Init /\ [][NextHeartbeat]_vars

\* ------------------------------------------------------- WsState::broadcast
\* Envelopes handed to WsState::broadcast.
BroadcastMessages == {SnapshotUpdate, CorridorUpdate("USDC-XLM"), NewPayment}

\* Subscription lists of the connections that listen to the broadcasts.
BroadcastLists == {<<"payments">>, <<"corridor:USDC-XLM">>, <<"anchor:a1">>}

\* Broadcasts of the registry to connections that have subscribed or not,
\* and send_task forwarding them.
NextBroadcast ==
    \/ ws_handler(None)
    \/ \E id \in ConnIds : handle_socket(id)
    \/ \E id \in ConnIds : handle_socket_ack(id)
    \/ \E id \in ConnIds, l \in BroadcastLists :
           /\ id \in DOMAIN subscriptions
           /\ subscriptions[id] = <<>>
           /\ recv_task_frame(id, Text(Subscribe(l)))
    \/ \E message \in BroadcastMessages :
           /\ metrics.messages_sent < MaxFrames
           /\ broadcast(message)
    \/ \E id \in ConnIds : send_task_heartbeat(id)
    \/ \E id \in ConnIds : send_task_broadcast(id)
    \/ \E id \in ConnIds : send_task_send(id)
    \/ \E id \in ConnIds : transport_down(id)
    \/ \E id \in ConnIds : handle_socket_teardown(id)

SpecBroadcast == Init /\ [][NextBroadcast]_vars

\* ------------------------------------------- unsubscribing from everything
\* Channel lists of Subscribe and Unsubscribe frames: one channel of each
\* namespace, and two channels at once.  No list matches both an anchor
\* update and a payment.
WidenLists ==
    {<<"corridor:USDC-XLM">>, <<"payments">>, <<"anchor:a1">>,
     <<"corridor:USDC-XLM", "payments">>}

\* Clients that subscribe on connecting, before any event was pushed to
\* them, and later unsubscribe, wholly or in part, while the broadcaster
\* publishes events of its three kinds; the clients read nothing.
NextWiden ==
    \/ ws_handler(None)
    \/ \E id \in ConnIds : handle_socket(id)
    \/ \E id \in ConnIds : handle_socket_ack(id)
    \/ \E id \in ConnIds, l \in WidenLists :
           /\ id \in DOMAIN subscriptions
           /\ subscriptions[id] = <<>> /\ chan[id] = <<>>
           /\ send_out[id] = None
           /\ metrics.messages_received < MaxCalls
           /\ recv_task_frame(id, Text(Subscribe(l)))
    \/ \E id \in ConnIds, l \in WidenLists :
           /\ id \in DOMAIN subscriptions
           /\ subscriptions[id] # <<>>
           /\ metrics.messages_received < MaxCalls
           /\ recv_task_frame(id, Text(Unsubscribe(l)))
    \/ \E id \in ConnIds : send_task_heartbeat(id)
    \/ \E id \in ConnIds : send_task_queue(id)
    \/ /\ PendingOK(MaxCalls)
       /\ publish_corridor_updates(Ok(<<"USDC-XLM">>))
       /\ UNCHANGED loop_task
    \/ PendingOK(MaxCalls) /\ broadcast_anchor_status
    \/ PendingOK(MaxCalls) /\ broadcast_payment

SpecWiden == Init /\ [][NextWiden]_vars

\* ------------------------------------------------------ the private queue
\* Anchor publishes without end and payments among them, to the connection
\* of a single client, who reads slowly or is gone.
NextOrdering ==
    \/ (\A id \in ConnIds : phase[id] = "idle") /\ ws_handler(None)
    \/ \E id \in ConnIds : handle_socket(id)
    \/ \E id \in ConnIds : handle_socket_ack(id)
    \/ \E id \in ConnIds : send_task_heartbeat(id)
    \/ \E id \in ConnIds : send_task_queue(id)
    \/ \E id \in ConnIds :
           (~writable[id] \/ Len(wire[id]) < MaxWire) /\ send_task_send(id)
    \/ broadcast_anchor_status
    \/ PendingOK(MaxQueued) /\ broadcast_payment
    \/ \E id \in ConnIds : transport_down(id)
    \/ \E id \in ConnIds : handle_socket_teardown(id)

SpecOrdering == Init /\ [][NextOrdering]_vars

\* ------------------------------------------------------- discarded frames
\* Text payloads recv_task has no use for: the two that do not parse, and
\* envelopes of variants that only the server sends (Pong is ignored by name,
\* the others fall to the catch-all arm).
DiscardedBodies ==
    {Malformed, Unrecognized, Pong(7), HealthAlert, SnapshotUpdate,
     CorridorUpdate("USDC-XLM"), Connected(1)}

\* Clients that mix such frames with a Ping and a Subscribe, and that close.
NextDiscard ==
    \/ ws_handler(None)
    \/ \E id \in ConnIds : handle_socket(id)
    \/ \E id \in ConnIds : handle_socket_ack(id)
    \/ \E id \in ConnIds, body \in DiscardedBodies :
           /\ metrics.messages_received < MaxCalls
           /\ recv_task_frame(id, Text(body))
    \/ \E id \in ConnIds :
           /\ metrics.messages_received < MaxCalls
           /\ Len(wire[id]) + Held(id) < MaxWire
           /\ recv_task_frame(id, Text(Ping(42)))
    \/ \E id \in ConnIds :
           /\ id \in DOMAIN subscriptions
           /\ subscriptions[id] = <<>>
           /\ metrics.messages_received < MaxCalls
           /\ recv_task_frame(id, Text(Subscribe(<<"payments">>)))
    \/ \E id \in ConnIds : recv_task_send(id)
    \/ \E id \in ConnIds : send_task_heartbeat(id)
    \/ \E id \in ConnIds : send_task_send(id)
    \/ \E id \in ConnIds : recv_task_frame(id, Close)
    \/ \E id \in ConnIds : handle_socket_teardown(id)

SpecDiscard == Init /\ [][NextDiscard]_vars

\* ==================================================================== claims
\* Ids whose teardown has run.
torn_down == {id \in ConnIds : phase[id] = "closed"}

\* C1: in every reachable state a connection id is a key of
\* WsState.connections if and only if it is a key of WsState.subscriptions.
C1_RegistryMapsAgree == DOMAIN subscriptions = connections

\* C2: once handle_socket's teardown has run for a connection, its id is a key
\* of neither map in any later state, and active_connections has gone down by
\* exactly one for each connection torn down.
C2_TornDownStaysAbsent ==
    /\ \A id \in torn_down :
           id \notin connections /\ id \notin DOMAIN subscriptions
    /\ metrics.active_connections
           = metrics.total_connections - Cardinality(torn_down)

\* C3: with WS_AUTH_TOKEN set, a request whose token differs from it gets
\* 401 and changes neither the maps nor any counter nor any connection's
\* state; a request whose token equals it, and any request when
\* WS_AUTH_TOKEN is unset, is answered with the upgrade (101) under an id no
\* connection has had, and handle_socket, run when the upgrade completes,
\* registers that id in both maps with an empty list and adds one to
\* total_connections and active_connections.
C3_TokenDecidesUpgrade ==
    [][/\ \A token \in Tokens : ws_handler(token) =>
             LET configured == ws_auth_token # None
                 differs == configured /\ token # None
                                       /\ token[1] # ws_auth_token[1]
                 equals == configured /\ token = Some(ws_auth_token[1])
             IN  /\ differs =>
                       /\ http'.status = 401
                       /\ UNCHANGED <<registry, metrics, bus, chan, wire,
                                      conn_tasks>>
                 /\ (equals \/ ~configured) =>
                       /\ http'.status = 101
                       /\ \E id \in ConnIds :
                             /\ phase[id] = "idle" /\ phase'[id] = "upgrading"
                             /\ id \notin connections
                             /\ id \notin DOMAIN subscriptions
                             /\ \A other \in ConnIds \ {id} :
                                    phase'[other] = phase[other]
       /\ \A id \in ConnIds : handle_socket(id) =>
             /\ phase[id] = "upgrading"
             /\ id \notin connections /\ id \notin DOMAIN subscriptions
             /\ connections' = connections \cup {id}
             /\ DOMAIN subscriptions' = DOMAIN subscriptions \cup {id}
             /\ subscriptions'[id] = <<>>
             /\ metrics'.total_connections = metrics.total_connections + 1
             /\ metrics'.active_connections = metrics.active_connections + 1
       /\ \A id \in ConnIds :
             (phase[id] = "idle" /\ phase'[id] # "idle") => http'.status = 101
      ]_vars

\* C3's case: a token is configured, the request that carried it has been
\* upgraded and registered, and the last request, carrying another token,
\* was answered 401.
C3_Witness ==
    /\ ws_auth_token = Some("secret")
    /\ http = [token |-> Some("wrong"), status |-> 401]
    /\ connections = {1} /\ phase[2] = "idle"
    /\ metrics.total_connections = 1

\* C4: with WS_AUTH_TOKEN set, a request that carries no token is answered
\* 401 and registers nothing.
C4_MissingTokenRejected ==
    [][(ws_auth_token # None /\ ws_handler(None)) =>
          /\ http'.status = 401
          /\ UNCHANGED <<registry, metrics, conn_tasks>>
      ]_vars

\* A connection that is registered, with the receiving end of its private
\* queue alive and a slot free: a push to it can succeed.
has_room(id) ==
    /\ id \in connections
    /\ send_task[id] # "finished"
    /\ Len(chan[id]) < QUEUE_CAPACITY

\* A registered connection whose subscription list is empty.
firehose(id) ==
    /\ id \in connections
    /\ id \in DOMAIN subscriptions
    /\ subscriptions[id] = <<>>

\* C5: a corridor tick for a key whose last dispatch is less than 30 seconds
\* old delivers nothing for it; one whose last dispatch is 30 seconds old or
\* more, and the key's first one, delivers exactly one CorridorUpdate to
\* every connection that takes everything and has queue room.
C5_Debounce ==
    [][\A key \in CorridorKeys : publish_corridor_updates(Ok(<<key>>)) =>
          \A id \in ConnIds : (firehose(id) /\ has_room(id)) =>
              IF key \in DOMAIN last_sent /\ now - last_sent[key] < 30
              THEN chan'[id] = chan[id]
              ELSE chan'[id] = Append(chan[id], CorridorUpdate(key))
      ]_vars

\* C5's case: a connection holds two updates of one key, dispatched at 0 and
\* at 30, and 29 seconds after the second the next tick is due to be dropped.
C5_Witness ==
    /\ now = 59
    /\ "USDC-XLM" \in DOMAIN last_sent
    /\ last_sent["USDC-XLM"] = 30
    /\ \E id \in connections :
           chan[id] = <<CorridorUpdate("USDC-XLM"), CorridorUpdate("USDC-XLM")>>

\* C6: an anchor publish leaves a full queue (32 pending) as it is, appends
\* the event to the queue of every other connection that takes it and has
\* room, and changes neither the maps nor any connection's tasks nor any
\* other state.
C6_Backpressure ==
    [][broadcast_anchor_status =>
          /\ \A id \in connections :
                 Len(chan[id]) = QUEUE_CAPACITY => chan'[id] = chan[id]
          /\ \A id \in ConnIds : (firehose(id) /\ has_room(id)) =>
                 chan'[id] = Append(chan[id], AnchorUpdate)
          /\ UNCHANGED <<registry, metrics, bus, wire, conn_tasks, in_flight,
                         writable>>
      ]_vars

\* C6's case: connection 1 was registered first and never read; it holds 32
\* events.  Connection 2 has taken 34 (32 pending, one in the hands of its
\* send_task, one written after its Connected frame and its first Ping), so
\* its last two arrived in fan-outs whose push to connection 1 failed.
C6_Witness ==
    /\ connections = {1, 2}
    /\ phase[1] = "handshake"
    /\ Len(chan[1]) = QUEUE_CAPACITY
    /\ Len(chan[2]) = QUEUE_CAPACITY
    /\ send_out[2] = Some(to_frame(AnchorUpdate))
    /\ wire[2] = <<to_frame(Connected(2)), to_frame(Ping(0)),
                   to_frame(AnchorUpdate)>>

\* The corridor keys of a tick's records that pass the debounce, in order
\* (no key twice in one result).
dispatched(records) ==
    LET passes(key) == key \notin DOMAIN last_sent
                       \/ now - last_sent[key] >= RATE_LIMIT_SECS
        keys == SelectSeq(records, passes)
    IN  [i \in 1..Len(keys) |-> CorridorUpdate(keys[i])]

\* C7: a registered connection with an empty subscription list whose
\* outbound half is alive is offered every event: every CorridorUpdate the
\* tick dispatches, every AnchorUpdate and every NewPayment is appended to
\* its private queue (which has room), and every message of
\* WsState::broadcast to its broadcast receiver.
C7_EmptyListTakesAll ==
    [][/\ \A result \in FilterResults : publish_corridor_updates(result) =>
             \A id \in ConnIds : (firehose(id) /\ has_room(id)) =>
                 chan'[id] = chan[id] \o dispatched(result.records)
       /\ broadcast_anchor_status =>
             \A id \in ConnIds : (firehose(id) /\ has_room(id)) =>
                 chan'[id] = Append(chan[id], AnchorUpdate)
       /\ broadcast_payment =>
             \A id \in ConnIds : (firehose(id) /\ has_room(id)) =>
                 chan'[id] = Append(chan[id], NewPayment)
       /\ broadcast(SnapshotUpdate) =>
             \A id \in ConnIds : (firehose(id) /\ send_task[id] # "finished") =>
                 bus'[id] = Append(bus[id], SnapshotUpdate)
      ]_vars

\* C7's case: one tick with two records has reached the connection with the
\* empty list, and not the one subscribed to payments only.
C7_Witness ==
    /\ firehose(2)
    /\ chan[2] = <<CorridorUpdate("USDC-XLM"), CorridorUpdate("EURC-XLM")>>
    /\ 1 \in DOMAIN subscriptions
    /\ subscriptions[1] = <<"payments">>
    /\ chan[1] = <<>>

\* C8: for a connection with a non-empty subscription list (and queue room),
\* the tick pushes the CorridorUpdate for key K if and only if some
\* subscribed string is exactly "corridor:" followed by K.
C8_ExactCorridorMatch ==
    [][\A key \in CorridorKeys :
          (publish_corridor_updates(Ok(<<key>>)) /\ dispatched(<<key>>) # <<>>) =>
              \A id \in ConnIds :
                  (has_room(id) /\ id \in DOMAIN subscriptions
                                /\ subscriptions[id] # <<>>) =>
                      IF \E i \in 1..Len(subscriptions[id]) :
                             subscriptions[id][i] = "corridor:" \o key
                      THEN chan'[id] = Append(chan[id], CorridorUpdate(key))
                      ELSE chan'[id] = chan[id]
      ]_vars

\* C9: a Subscribe frame replaces the connection's list by the frame's
\* channels (whatever the list was before) and leaves every other
\* connection's list as it was.
C9_SubscribeReplaces ==
    [][\A id \in ConnIds, l \in RegistryLists :
          recv_task_frame(id, Text(Subscribe(l))) =>
              /\ DOMAIN subscriptions' = DOMAIN subscriptions \cup {id}
              /\ subscriptions'[id] = l
              /\ \A other \in DOMAIN subscriptions \ {id} :
                     subscriptions'[other] = subscriptions[other]
      ]_vars

\* C9's case: connection 1, the only one, has handled two frames and holds
\* one channel; connection 2 does not exist yet.
C9_Witness ==
    /\ phase[2] = "idle"
    /\ metrics.messages_received = 2
    /\ 1 \in DOMAIN subscriptions
    /\ subscriptions[1] = <<"payments">>

\* C10: an Unsubscribe frame removes from the connection's list exactly the
\* strings it names, every occurrence, and keeps the others in their order;
\* it adds no entry, touches no other connection's list, changes nothing
\* when the id has no entry or none of the names is in the list, and handled
\* a second time it changes nothing more.
C10_UnsubscribeRemovesListed ==
    [][\A id \in ConnIds, l \in RegistryLists :
          recv_task_frame(id, Text(Unsubscribe(l))) =>
              LET named(c) == \E i \in 1..Len(l) : l[i] = c
                  kept(c) == ~named(c)
              IN  /\ DOMAIN subscriptions' = DOMAIN subscriptions
                  /\ \A other \in DOMAIN subscriptions \ {id} :
                         subscriptions'[other] = subscriptions[other]
                  /\ id \in DOMAIN subscriptions =>
                         subscriptions'[id] = SelectSeq(subscriptions[id], kept)
                  /\ (id \notin DOMAIN subscriptions
                      \/ \A i \in 1..Len(subscriptions[id]) :
                             ~named(subscriptions[id][i])) =>
                         subscriptions' = subscriptions
                  /\ unsubscribe(subscriptions', id, l) = subscriptions'
      ]_vars

\* C10's case: connection 1 has handled three frames and is left with one of
\* the channels, twice; connection 2 does not exist yet.
C10_Witness ==
    /\ phase[2] = "idle"
    /\ metrics.messages_received = 3
    /\ 1 \in DOMAIN subscriptions
    /\ subscriptions[1] = <<"payments", "payments">>

\* C11: a text frame Ping{ts} from the client of an open connection makes
\* recv_task hold exactly one reply, the Pong with the same ts, and changes
\* neither map nor any queue nor what any client has been sent; when the
\* write of that reply completes on a transport that takes writes, exactly
\* that frame is put on that client's wire, once, nothing is written to any
\* other client, and neither map nor any queue changes.
C11_PingPong ==
    [][\A id \in ConnIds :
          /\ \A ts \in PingStamps :
                 (phase[id] = "open" /\ recv_task_frame(id, Text(Ping(ts)))) =>
                     /\ recv_out[id] = None
                     /\ recv_out'[id]
                            = Some(Text([type |-> "pong", timestamp |-> ts]))
                     /\ UNCHANGED <<wire, registry, bus, chan>>
          /\ (recv_task_send(id) /\ writable[id]) =>
                 /\ recv_out[id] # None
                 /\ wire'[id] = Append(wire[id], recv_out[id][1])
                 /\ recv_out'[id] = None
                 /\ \A other \in ConnIds \ {id} : wire'[other] = wire[other]
                 /\ UNCHANGED <<registry, bus, chan>>
          /\ (recv_out[id] # None /\ recv_out'[id] # recv_out[id]) =>
                 recv_task_send(id)
      ]_vars

\* C11's case: connection 1 is subscribed and has been sent Pong{42} and then
\* Pong{0} after its Connected frame.
C11_Witness ==
    /\ 1 \in DOMAIN subscriptions
    /\ subscriptions[1] = <<"payments">>
    /\ wire[1] = <<to_frame(Connected(1)), to_frame(Pong(42)),
                   to_frame(Pong(0))>>

\* C12: whatever a client has been sent starts with the Connected frame that
\* carries the id its connection is registered under; before that frame
\* nothing is written.
C12_ConnectedFirst ==
    \A id \in ConnIds :
        /\ phase[id] \in {"idle", "upgrading", "aborted", "handshake"} =>
               wire[id] = <<>>
        /\ wire[id] # <<>> =>
               wire[id][1] = Text([type |-> "connected", connection_id |-> id])

\* C12's case: both connections are open.  Connection 1 has been sent its
\* Connected frame, its first Ping and an anchor update; connection 2, to
\* which the same update was pushed while it was in its handshake, has been
\* sent its Connected frame, then the update, then its first Ping.
C12_Witness ==
    /\ phase[1] = "open" /\ phase[2] = "open"
    /\ wire[1] = <<to_frame(Connected(1)), to_frame(Ping(0)),
                   to_frame(AnchorUpdate)>>
    /\ wire[2] = <<to_frame(Connected(2)), to_frame(AnchorUpdate),
                   to_frame(Ping(0))>>

\* C13: a turn of the loop whose storage read fails pushes nothing, leaves
\* the ledger, the maps and the counters as they were and leaves the loop
\* running; and a turn after a failure dispatches by the usual rule: a key
\* not in its window is pushed to every connection that takes everything
\* and has room, and its ledger entry is set to the time of the turn.
C13_FailedReadSkipsTick ==
    [][/\ \A result \in FilterResults : (start_loop(result) /\ ~result.ok) =>
             /\ UNCHANGED <<chan, last_sent, registry, metrics, bus, wire>>
             /\ broadcaster_loop' = "running"
       /\ broadcaster_loop = "running" => broadcaster_loop' = "running"
       /\ \A key \in CorridorKeys :
             (warned # None /\ start_loop(Ok(<<key>>))
              /\ (key \in DOMAIN last_sent => now - last_sent[key] >= 30)) =>
                 /\ key \in DOMAIN last_sent' /\ last_sent'[key] = now
                 /\ \A id \in ConnIds : (firehose(id) /\ has_room(id)) =>
                        chan'[id] = Append(chan[id], CorridorUpdate(key))
      ]_vars

\* C13's case: the read failed at 29, when the key's entry was 0 and the
\* connection held one update; the turn at 59 read again and dispatched.
C13_Witness ==
    /\ broadcaster_loop = "running"
    /\ warned = Some(29)
    /\ "USDC-XLM" \in DOMAIN last_sent
    /\ last_sent["USDC-XLM"] = 59
    /\ 1 \in connections
    /\ chan[1] = <<CorridorUpdate("USDC-XLM"), CorridorUpdate("USDC-XLM")>>

\* The key is outside its window: a turn that reads it dispatches it.
due(key) == key \in DOMAIN last_sent => now - last_sent[key] >= RATE_LIMIT_SECS

\* C18: while the loop runs, a key that the storage keeps returning and that
\* is outside its window is dispatched (which alone puts it back inside),
\* and a key inside its window comes out of it whenever its dispatch left the
\* clock two windows to run (its steps being 29 or 30 seconds): the ledger
\* holds no key back for good.
C18_NoStarvation ==
    /\ (broadcaster_loop = "running" /\ due("USDC-XLM")) ~> ~due("USDC-XLM")
    /\ (/\ ~due("USDC-XLM")
        /\ last_sent["USDC-XLM"] + 2 * RATE_LIMIT_SECS <= MaxTime)
           ~> due("USDC-XLM")

\* C18's case: the key was dispatched at 0, held back at 29, and dispatched
\* again at 58, to a connection that takes everything.
C18_Witness ==
    /\ broadcaster_loop = "running"
    /\ now = 58
    /\ "USDC-XLM" \in DOMAIN last_sent
    /\ last_sent["USDC-XLM"] = 58
    /\ 1 \in connections
    /\ chan[1] = <<CorridorUpdate("USDC-XLM"), CorridorUpdate("USDC-XLM")>>

\* C19: no step removes a key from the ledger or moves an entry back; an
\* entry is written only by a turn whose read returned the key, outside the
\* key's window (30 seconds or more since its entry, or no entry), to the
\* time of the turn, and that turn pushed the key's update to every
\* connection that takes everything and has room.
C19_LedgerMovesForward ==
    [][/\ DOMAIN last_sent \subseteq DOMAIN last_sent'
       /\ \A key \in DOMAIN last_sent' :
             LET old == key \in DOMAIN last_sent
             IN  (~old \/ last_sent'[key] # last_sent[key]) =>
                     /\ old => /\ last_sent'[key] > last_sent[key]
                               /\ now - last_sent[key] >= 30
                     /\ last_sent'[key] = now
                     /\ \E result \in FilterResults :
                            /\ result.ok
                            /\ contains(result.records, key)
                            /\ publish_corridor_updates(result)
                     /\ \A id \in ConnIds : (firehose(id) /\ has_room(id)) =>
                            \E i \in (Len(chan[id]) + 1)..Len(chan'[id]) :
                                chan'[id][i] = CorridorUpdate(key)
      ]_vars

\* C19's case: one key's entry was written at 30 and kept through a turn at
\* 59 that returned both keys and wrote the other key's entry.
C19_Witness ==
    /\ now = 59
    /\ DOMAIN last_sent = {"USDC-XLM", "EURC-XLM"}
    /\ last_sent["USDC-XLM"] = 30
    /\ last_sent["EURC-XLM"] = 59

\* A registered connection with a subscription list that is not empty.
filtered(id) ==
    /\ id \in connections
    /\ id \in DOMAIN subscriptions
    /\ subscriptions[id] # <<>>

\* Some string of the connection's list begins with "anchor:".
names_anchor(id) ==
    \E i \in 1..Len(subscriptions[id]) :
        LET c == subscriptions[id][i]
        IN  Len(c) >= 7 /\ SubSeq(c, 1, 7) = "anchor:"

\* Some string of the connection's list is "payments".
names_payments(id) ==
    \E i \in 1..Len(subscriptions[id]) : subscriptions[id][i] = "payments"

\* C14: broadcast_anchor_status pushes the AnchorUpdate to a connection with
\* a non-empty list (and queue room) if and only if some string of the list
\* begins with "anchor:", whatever follows the colon.
C14_AnchorPrefixMatch ==
    [][broadcast_anchor_status =>
          \A id \in ConnIds : (filtered(id) /\ has_room(id)) =>
              IF names_anchor(id)
              THEN chan'[id] = Append(chan[id], AnchorUpdate)
              ELSE chan'[id] = chan[id]
      ]_vars

\* C14's case: one anchor publish has reached the connection subscribed to
\* "anchor:a1" and not the one subscribed to "anchors".
C14_Witness ==
    /\ filtered(1) /\ subscriptions[1] = <<"anchor:a1">>
    /\ chan[1] = <<AnchorUpdate>>
    /\ filtered(2) /\ subscriptions[2] = <<"anchors">>
    /\ chan[2] = <<>>

\* C15: broadcast_payment pushes the NewPayment to a connection with a
\* non-empty list (and queue room) if and only if the list contains the
\* string "payments"; it leaves both maps as they are, and with no
\* connection registered it changes nothing at all.
C15_PaymentsLiteralMatch ==
    [][broadcast_payment =>
          /\ \A id \in ConnIds : (filtered(id) /\ has_room(id)) =>
                 IF names_payments(id)
                 THEN chan'[id] = Append(chan[id], NewPayment)
                 ELSE chan'[id] = chan[id]
          /\ UNCHANGED registry
          /\ connections = {} => UNCHANGED vars
      ]_vars

\* C15's case: one payment publish has reached the connection whose list
\* holds "payments" beside a corridor and not the one subscribed to
\* "payments:all".
C15_Witness ==
    /\ filtered(1) /\ subscriptions[1] = <<"corridor:USDC-XLM", "payments">>
    /\ chan[1] = <<NewPayment>>
    /\ filtered(2) /\ subscriptions[2] = <<"payments:all">>
    /\ chan[2] = <<>>

\* C20: every call of broadcast_anchor_status and of broadcast_payment,
\* whatever the clock and the ledger hold, pushes its event to every
\* connection with room that takes everything or names the event's channel,
\* and leaves the ledger as it is.
C20_DirectNotDebounced ==
    [][/\ broadcast_anchor_status =>
             /\ \A id \in ConnIds :
                    (has_room(id) /\ (firehose(id)
                                      \/ (filtered(id) /\ names_anchor(id)))) =>
                        chan'[id] = Append(chan[id], AnchorUpdate)
             /\ UNCHANGED <<last_sent, now>>
       /\ broadcast_payment =>
             /\ \A id \in ConnIds :
                    (has_room(id) /\ (firehose(id)
                                      \/ (filtered(id) /\ names_payments(id)))) =>
                        chan'[id] = Append(chan[id], NewPayment)
             /\ UNCHANGED <<last_sent, now>>
      ]_vars

\* C20's case: with the clock still at 0 and a ledger entry of that instant,
\* one connection holds two anchor updates and the other a payment.
C20_Witness ==
    /\ now = 0
    /\ DOMAIN last_sent = {"USDC-XLM"}
    /\ filtered(1) /\ subscriptions[1] = <<"anchor:">>
    /\ chan[1] = <<AnchorUpdate, AnchorUpdate>>
    /\ filtered(2) /\ subscriptions[2] = <<"payments">>
    /\ chan[2] = <<NewPayment>>

\* C16: once handle_socket's teardown of a connection has run, no frame is
\* written to its client any more and no text frame from its client is
\* handled any more (so none is counted, and none changes the registry).
C16_NoProcessingAfterTeardown ==
    [][\A id \in torn_down :
          /\ wire'[id] = wire[id]
          /\ \A msg \in InboundFrames :
                 msg.kind = "text" => ~recv_task_frame(id, msg)
      ]_vars

\* C17: when either task of an open connection has ended, the clean-up of
\* that connection eventually runs, whether or not the other task ends; it
\* removes the id from both maps and takes one from active_connections, and
\* it never runs for a connection it has run for.
C17_TeardownRunsOnce ==
    /\ \A id \in ConnIds :
           (recv_task[id] = "finished" \/ send_task[id] = "finished")
               ~> (phase[id] = "closed")
    /\ [][\A id \in ConnIds :
             /\ handle_socket_teardown(id) =>
                    /\ id \in connections /\ id \in DOMAIN subscriptions
                    /\ connections' = connections \ {id}
                    /\ DOMAIN subscriptions' = DOMAIN subscriptions \ {id}
                    /\ metrics'.active_connections
                           = metrics.active_connections - 1
             /\ phase[id] = "closed" =>
                    /\ phase'[id] = "closed"
                    /\ ~handle_socket_teardown(id)
         ]_vars

\* C17's case: connection 1 was torn down on the end of its inbound half
\* with its outbound half still running, connection 2 on a failed write with
\* its inbound half still running.
C17_Witness ==
    /\ phase[1] = "closed" /\ phase[2] = "closed"
    /\ recv_task[1] = "finished" /\ send_task[1] = "running"
    /\ recv_task[2] = "running" /\ send_task[2] = "finished"
    /\ connections = {}
    /\ metrics.active_connections = 0

\* C21: a text frame that does not parse, and one that parses to a variant
\* clients are not expected to send, is counted in messages_received and
\* otherwise changes nothing: no frame is written to any client, both maps
\* and every queue are as before, the connection's tasks keep running and
\* the connection stays as it was, so that its next frame is handled.
C21_DiscardedSilently ==
    [][\A id \in ConnIds, body \in DiscardedBodies :
          recv_task_frame(id, Text(body)) =>
              /\ UNCHANGED <<wire, registry, bus, chan, conn_tasks, in_flight,
                             writable>>
              /\ recv_task'[id] = "running"
              /\ metrics' = [metrics EXCEPT !.messages_received = @ + 1]
      ]_vars

\* C21's case: of the three text frames connection 1 sent, one was
\* discarded, and the Subscribe and the Ping were handled.
C21_Witness ==
    /\ phase[1] = "open" /\ phase[2] = "idle"
    /\ metrics.messages_received = 3
    /\ 1 \in connections /\ 1 \in DOMAIN subscriptions
    /\ subscriptions[1] = <<"payments">>
    /\ wire[1] = <<to_frame(Connected(1)), to_frame(Pong(42))>>

\* The events of the private queue that were written to the client, the one
\* send_task holds, and those still queued, in this order.
pushed(id) ==
    LET is_event(frame) ==
            frame.body.type \in {"corridor_update", "anchor_update",
                                 "new_payment"}
        body(frames) == [i \in 1..Len(frames) |-> frames[i].body]
        held == IF send_out[id] # None /\ is_event(send_out[id][1])
                THEN <<send_out[id][1].body>> ELSE <<>>
    IN  body(SelectSeq(wire[id], is_event)) \o held \o chan[id]

\* C22: a private queue changes only by an event joining its end or its
\* first event leaving (or by being dropped whole with its receiver), and it
\* never holds more than 32 events; send_task takes exactly the first event
\* of the queue, taking it out of the queue as it does, and while the client
\* can be written to writes exactly the event it took, once; so what has
\* been written, what send_task holds and what is queued are, in this order,
\* the events pushed, each once, and nothing else is written to the client
\* but the heartbeat's Ping.
C22_QueueOrder ==
    [][\A id \in ConnIds :
          /\ Len(chan'[id]) <= 32
          /\ chan'[id] # chan[id] =>
                 \/ /\ Len(chan'[id]) = Len(chan[id]) + 1
                    /\ SubSeq(chan'[id], 1, Len(chan[id])) = chan[id]
                 \/ chan[id] # <<>> /\ chan'[id] = Tail(chan[id])
                 \/ send_task'[id] = "finished" /\ chan'[id] = <<>>
          /\ send_task_queue(id) =>
                 /\ send_out[id] = None
                 /\ send_out'[id] = Some(Text(Head(chan[id])))
                 /\ chan'[id] = Tail(chan[id])
                 /\ wire'[id] = wire[id]
          /\ (send_task_send(id) /\ writable[id]) =>
                 /\ wire'[id] = Append(wire[id], send_out[id][1])
                 /\ send_out'[id] = None
                 /\ chan'[id] = chan[id]
          /\ (phase[id] = "open" /\ wire'[id] # wire[id]) =>
                 /\ send_out[id] # None
                 /\ wire'[id] = Append(wire[id], send_out[id][1])
          /\ \/ pushed(id)' = pushed(id)
             \/ /\ Len(pushed(id)') = Len(pushed(id)) + 1
                /\ SubSeq(pushed(id)', 1, Len(pushed(id))) = pushed(id)
             \/ /\ send_task'[id] = "finished"
                /\ Len(pushed(id)') <= Len(pushed(id))
                /\ SubSeq(pushed(id), 1, Len(pushed(id)')) = pushed(id)'
      ]_vars

\* C22's case: a payment and then an anchor update were written to the
\* client, in the order they were pushed; send_task holds the payment pushed
\* next, and the queue has filled up with what was pushed after it.
C22_Witness ==
    /\ wire[1] = <<to_frame(Connected(1)), to_frame(NewPayment),
                   to_frame(AnchorUpdate)>>
    /\ send_out[1] = Some(to_frame(NewPayment))
    /\ Len(chan[1]) = QUEUE_CAPACITY
    /\ chan[1][1] = AnchorUpdate
    /\ chan[1][QUEUE_CAPACITY] = AnchorUpdate

\* The connection's list names the event's channel, by the rule of the
\* broadcaster's fan-out: "corridor:" and the key, the "anchor:" prefix, the
\* string "payments"; events of other kinds have no channel.
names_event(id, msg) ==
    CASE msg.type = "corridor_update" ->
             \E i \in 1..Len(subscriptions[id]) :
                 subscriptions[id][i] = "corridor:" \o msg.corridor_key
      [] msg.type = "anchor_update" -> names_anchor(id)
      [] msg.type = "new_payment" -> names_payments(id)
      [] OTHER -> FALSE

\* C23: a message of WsState::broadcast is written to the client of a
\* connection with a non-empty list only if the list names the message's
\* channel (the heartbeat's Ping apart).
C23_BroadcastFiltered ==
    [][\A id \in ConnIds :
          (filtered(id) /\ send_task_send(id) /\ wire'[id] # wire[id]) =>
              \/ send_out[id][1].body.type = "ping"
              \/ names_event(id, send_out[id][1].body)
      ]_vars

\* C24: active_connections is at least the number of entries of
\* WsState.connections, at most total_connections and never negative; it is
\* 0 once every accepted connection has been torn down; total_connections
\* never decreases.
C24_CounterConsistency ==
    /\ [](/\ metrics.active_connections >= Cardinality(connections)
          /\ metrics.active_connections <= metrics.total_connections
          /\ metrics.active_connections >= 0
          /\ (\A id \in ConnIds :
                 phase[id] \in {"idle", "upgrading", "aborted", "closed"}) =>
                 metrics.active_connections = 0)
    /\ [][metrics'.total_connections >= metrics.total_connections]_vars

\* Two connections were accepted and both have been torn down.
C24_Witness ==
    /\ metrics.total_connections = 2
    /\ metrics.active_connections = 0
    /\ connections = {}
    /\ \A id \in ConnIds : phase[id] = "closed"

\* C25: an Unsubscribe that names every channel a filtered connection holds
\* leaves the connection registered with an empty list, and a connection
\* with an empty list is pushed every corridor update the tick dispatches,
\* every anchor update and every payment, whatever it was subscribed to
\* before.
C25_UnsubscribedFromAll ==
    [][\A id \in ConnIds :
          /\ \A l \in WidenLists :
                 (/\ filtered(id)
                  /\ recv_task_frame(id, Text(Unsubscribe(l)))
                  /\ \A i \in 1..Len(subscriptions[id]) :
                         contains(l, subscriptions[id][i])) =>
                     /\ id \in connections'
                     /\ id \in DOMAIN subscriptions'
                     /\ subscriptions'[id] = <<>>
          /\ (firehose(id) /\ has_room(id)) =>
                 /\ publish_corridor_updates(Ok(<<"USDC-XLM">>)) =>
                        chan'[id] = chan[id] \o dispatched(<<"USDC-XLM">>)
                 /\ broadcast_anchor_status =>
                        chan'[id] = Append(chan[id], AnchorUpdate)
                 /\ broadcast_payment =>
                        chan'[id] = Append(chan[id], NewPayment)
      ]_vars

\* The only connection subscribed before anything was pushed to it, then
\* unsubscribed; its queue holds an anchor update, a payment and a corridor
\* update, which no list it could have held lets through together.
C25_Witness ==
    /\ phase[1] = "open" /\ phase[2] = "idle"
    /\ metrics.messages_received = 2
    /\ firehose(1)
    /\ chan[1] = <<AnchorUpdate, NewPayment, CorridorUpdate("USDC-XLM")>>

\* C26: connection_errors is 0 in every state; a corridor tick, an anchor
\* publish and a payment publish leave every counter as it was, whether
\* their pushes succeed or fail; messages_sent changes only in a call of
\* WsState::broadcast, which adds exactly 1 whoever listens.
C26_CountersAndFanOut ==
    /\ [](metrics.connection_errors = 0)
    /\ [][/\ \A result \in FilterResults :
                publish_corridor_updates(result) => UNCHANGED metrics
          /\ broadcast_anchor_status => UNCHANGED metrics
          /\ broadcast_payment => UNCHANGED metrics
          /\ broadcast(SnapshotUpdate) =>
                 metrics'.messages_sent = metrics.messages_sent + 1
          /\ metrics'.messages_sent # metrics.messages_sent =>
                 broadcast(SnapshotUpdate)
         ]_vars

\* One broadcast was counted; a payment reached connection 2, while
\* connection 1 is still registered with its queue's receiver dropped, so a
\* push to it fails.
C26_Witness ==
    /\ metrics.messages_sent = 1
    /\ metrics.connection_errors = 0
    /\ 1 \in connections /\ send_task[1] = "finished"
    /\ chan[2] = <<NewPayment>>

====
